---- MODULE Spec2Model ----
(***************************************************************************)
(* spectrokit: batch analysis of audio files.                              *)
(*                                                                         *)
(* The repository holds two command-line programs with the same pipeline:  *)
(*   spectrokit.py  (strict: a failing feature aborts the file; seedable;  *)
(*                   label-derived report name; summary statistics)        *)
(*   analyzer.py    (lenient: a failing feature is recorded as None;       *)
(*                   fixed report name; no summary)                        *)
(* One behaviour of this module is one invocation of `analyze` of either   *)
(* program (optionally followed by a second invocation with the same       *)
(* command line), split at the points where worker processes interleave.   *)
(*                                                                         *)
(* Python values: None is <<>> and a present int / float x is <<x>>;       *)
(* str and list values carry a tag ("str" / "list" / "None").  A str is    *)
(* the sequence of its whitespace-delimited chunks and " " separators.     *)
(***************************************************************************)
EXTENDS Integers, Sequences, FiniteSets, TLC

\* ---------------------------------------------------------------- bounds
MaxEntries == 2     \* entries of the input directory
MaxFuncs   == 2     \* feature names on the command line
MaxLabels  == 2     \* labels on the command line
MaxSample  == 2     \* largest --sample-size
MaxSeed    == 1     \* largest --seed
RngMod     == 5     \* number of states of the stand-in generator

\* --------------------------------------------------------- Python values
None == <<>>
Some(x) == <<x>>

PyNone == [t |-> "None", v |-> <<>>]
PyStr(chunks) == [t |-> "str", v |-> chunks]
PyList(items) == [t |-> "list", v |-> items]

Range(s) == {s[i] : i \in DOMAIN s}

Min(a, b) == IF a < b THEN a ELSE b

\* bool(x) of a str / list / None value: empty and None are falsy.
truthy(x) == x.t # "None" /\ x.v # <<>>

\* bool(n) of an optional int: None and 0 are falsy.
truthy_int(n) == n # None /\ n[1] # 0

RECURSIVE str_split(_)
\* str.split(): the chunks between runs of whitespace.
str_split(chunks) ==
    IF chunks = <<>> THEN <<>>
    ELSE IF Head(chunks) = " " THEN str_split(Tail(chunks))
    ELSE <<Head(chunks)>> \o str_split(Tail(chunks))

RECURSIVE join_items(_, _)
join_items(sep, items) ==
    IF items = <<>> THEN <<>>
    ELSE IF Len(items) = 1 THEN <<items[1]>>
    ELSE <<items[1], sep>> \o join_items(sep, Tail(items))

\* sep.join(x): a TypeError on None; over a list its items, over a str its
\* characters (chunks).  The result is the chunk sequence of the new str.
str_join(sep, x) ==
    IF x.t = "None" THEN [exc |-> "TypeError", v |-> <<>>]
    ELSE [exc |-> "", v |-> join_items(sep, x.v)]

\* ------------------------------------------------------------ features.py
\* features.__all__
features_all ==
    <<"centroid_variance", "bndwidth_mean", "zcr_mean", "rms_variance",
      "rolloff_median">>

\* the functions features.py defines
features_defs ==
    {"centroid_variance", "bandwidth_mean", "zcr_mean", "rms_variance",
     "rolloff_median"}

\* callable(getattr(features, name, None))
features_callable(name) == name \in features_defs

\* ------------------------------------------------------------- file system
\* What may lie under the input path.  A file's content decides what the
\* decoder, the feature functions and the renderer do with it:
\*   corrupt    librosa.load raises
\*   raising    the feature functions that raise on its waveform
\*   renderable FALSE when the spectrogram cannot be drawn or saved
Disk ==
    <<[suffix |-> ".txt",  is_file |-> TRUE,  corrupt |-> TRUE,  raising |-> {},               renderable |-> TRUE],
      [suffix |-> ".wav",  is_file |-> TRUE,  corrupt |-> FALSE, raising |-> {},               renderable |-> TRUE],
      [suffix |-> ".MP3",  is_file |-> TRUE,  corrupt |-> FALSE, raising |-> {},               renderable |-> FALSE],
      [suffix |-> ".flac", is_file |-> TRUE,  corrupt |-> TRUE,  raising |-> {},               renderable |-> TRUE],
      [suffix |-> ".ogg",  is_file |-> TRUE,  corrupt |-> FALSE, raising |-> {"rms_variance"}, renderable |-> TRUE],
      [suffix |-> ".m4a",  is_file |-> FALSE, corrupt |-> FALSE, raising |-> {},               renderable |-> TRUE]>>

Paths == DOMAIN Disk

\* f.suffix.lower()
suffix_lower(s) == IF s = ".MP3" THEN ".mp3" ELSE s

exts == {".wav", ".mp3", ".flac", ".ogg", ".m4a"}

RECURSIVE SortedSeq(_)
\* directory.rglob("*"): the entries of a directory tree, here by path.
SortedSeq(S) ==
    IF S = {} THEN <<>>
    ELSE LET m == CHOOSE x \in S : \A y \in S : x <= y
         IN <<m>> \o SortedSeq(S \ {m})

find_audio_files(directory) ==
    SelectSeq(SortedSeq(directory),
              LAMBDA f : Disk[f].is_file /\ suffix_lower(Disk[f].suffix) \in exts)

\* analyze: "discover files"
discover(inp) ==
    IF inp.is_file THEN <<inp.path>> ELSE find_audio_files(inp.entries)

\* ------------------------------------------------------------------ random
\* random.seed(a): the generator's state is a function of a alone.
random_seed(a) == Some(a % RngMod)

\* One draw below n.  An unseeded generator (state None: seeded by the OS)
\* may give any index; a seeded one gives the next value of its sequence.
randbelow(rng, n) ==
    IF rng = None THEN {[j |-> j, rng |-> None] : j \in 0 .. n - 1}
    ELSE LET s == (3 * rng[1] + 1) % RngMod
         IN {[j |-> s % n, rng |-> Some(s)]}

RECURSIVE sample_loop(_, _, _, _, _)
\* random.sample's selection loop over a pool of n items, at step i of k:
\*   j = randbelow(n-i); result[i] = pool[j]; pool[j] = pool[n-i-1]
sample_loop(rng, pool, n, i, k) ==
    IF i >= k THEN {[v |-> <<>>, rng |-> rng]}
    ELSE UNION {
        LET pool2 == [pool EXCEPT ![d.j + 1] = pool[n - i]]
        IN {[v |-> <<pool[d.j + 1]>> \o r.v, rng |-> r.rng] :
               r \in sample_loop(d.rng, pool2, n, i + 1, k)}
        : d \in randbelow(rng, n - i)}

\* random.sample(population, k): the possible (result, generator) pairs, or
\* a ValueError when k is negative or larger than the population.
random_sample(rng, population, k) ==
    IF k < 0 \/ k > Len(population)
    THEN {[exc |-> "ValueError", v |-> <<>>, rng |-> rng]}
    ELSE {[exc |-> "", v |-> r.v, rng |-> r.rng] :
             r \in sample_loop(rng, population, Len(population), 0, k)}

\* ------------------------------------------------------------ collaborators
\* func(waveform, sr) of features.py on the waveform of `path`: the value is
\* a stand-in for the float the DSP library computes, fixed by file and
\* function; `raised` when the lookup or the call raises.
feature_value(funcname, path) ==
    CASE funcname = "centroid_variance" -> 10 * path + 1
      [] funcname = "bandwidth_mean"    -> 10 * path + 2
      [] funcname = "zcr_mean"          -> path
      [] funcname = "rms_variance"      -> 2 * path + 3
      [] funcname = "rolloff_median"    -> 10 * path + 5
      [] OTHER                          -> 0

feature_call(funcname, path) ==
    [raised |-> funcname \notin features_defs \/ funcname \in Disk[path].raising,
     value  |-> feature_value(funcname, path)]

NoExc == [type |-> "", funcname |-> "", file |-> 0]

\* visualize.save_spectrogram: raises when the waveform cannot be drawn and
\* when ', '.join(labels) is given None; else writes <output_dir>/<name>.png.
save_spectrogram(path, labels, output_dir) ==
    IF ~Disk[path].renderable
    THEN [exc |-> [type |-> "RenderError", funcname |-> "", file |-> 0], image |-> None]
    ELSE IF str_join(", ", labels).exc # ""
    THEN [exc |-> [type |-> "TypeError", funcname |-> "", file |-> 0], image |-> None]
    ELSE [exc |-> NoExc, image |-> Some(path)]

\* analysis_result[funcname] = value
dict_set(d, key, value) ==
    [k \in DOMAIN d \cup {key} |-> IF k = key THEN value ELSE d[k]]

\* ------------------------------------------------------------ process_file
RECURSIVE spectrokit_features_loop_skip(_, _, _)
\* faulty variant: the failure is swallowed and the function is left out
spectrokit_features_loop_skip(funcs, path, acc) ==
    IF funcs = <<>> THEN [exc |-> NoExc, analysis |-> acc]
    ELSE LET c == feature_call(Head(funcs), path)
         IN spectrokit_features_loop_skip(Tail(funcs), path,
                IF c.raised THEN acc ELSE dict_set(acc, Head(funcs), Some(c.value)))

RECURSIVE spectrokit_features_loop(_, _, _)
\* spectrokit.py: the loop over the requested functions.  A failure is
\* re-raised as a RuntimeError naming the function and the file.
spectrokit_features_loop(funcs, path, acc) ==
    IF funcs = <<>> THEN [exc |-> NoExc, analysis |-> acc]
    ELSE LET c == feature_call(Head(funcs), path)
         IN IF c.raised
            THEN [exc |-> [type |-> "RuntimeError", funcname |-> Head(funcs), file |-> path],
                  analysis |-> acc]
            ELSE spectrokit_features_loop(Tail(funcs), path,
                                          dict_set(acc, Head(funcs), Some(c.value)))

RECURSIVE analyzer_features_loop_break(_, _, _)
\* faulty variant: the loop ends at the first failure
analyzer_features_loop_break(funcs, path, acc) ==
    IF funcs = <<>> THEN [exc |-> NoExc, analysis |-> acc]
    ELSE LET c == feature_call(Head(funcs), path)
         IN IF c.raised
            THEN [exc |-> NoExc, analysis |-> dict_set(acc, Head(funcs), None)]
            ELSE analyzer_features_loop_break(Tail(funcs), path,
                                              dict_set(acc, Head(funcs), Some(c.value)))

RECURSIVE analyzer_features_loop(_, _, _)
\* analyzer.py: the loop over the requested functions.  A failure is echoed
\* and recorded as None; the loop goes on.
analyzer_features_loop(funcs, path, acc) ==
    IF funcs = <<>> THEN [exc |-> NoExc, analysis |-> acc]
    ELSE LET c == feature_call(Head(funcs), path)
         IN analyzer_features_loop(Tail(funcs), path,
                dict_set(acc, Head(funcs), IF c.raised THEN None ELSE Some(c.value)))

\* The rest of process_file, the same in both programs: load, loop, render,
\* return.  The outcome is what the future will hold: an exception or a
\* result, and the image written on the way.
process_file_with(loop, audio_file, labels, image_output) ==
    IF Disk[audio_file].corrupt
    THEN [exc |-> [type |-> "LoadError", funcname |-> "", file |-> 0],
          result |-> None, image |-> None]
    ELSE IF loop.exc # NoExc
    THEN [exc |-> loop.exc, result |-> None, image |-> None]
    ELSE LET img == IF image_output # None
                    THEN save_spectrogram(audio_file, labels, image_output)
                    ELSE [exc |-> NoExc, image |-> None]
         IN IF img.exc # NoExc
            THEN [exc |-> img.exc, result |-> None, image |-> None]
            ELSE [exc |-> NoExc,
                  result |-> Some([file |-> audio_file, labels |-> labels,
                                   analysis |-> loop.analysis]),
                  image |-> img.image]

spectrokit_process_file(audio_file, funcs, labels, image_output) ==
    process_file_with(spectrokit_features_loop(funcs.v, audio_file, <<>>),
                      audio_file, labels, image_output)

analyzer_process_file(audio_file, funcs, labels, image_output) ==
    process_file_with(analyzer_features_loop(funcs.v, audio_file, <<>>),
                      audio_file, labels, image_output)

\* discover_analysis_functions(): the names of __all__ bound to a callable.
discover_analysis_functions ==
    {name \in Range(features_all) : features_callable(name)}

\* analyze: "validate requested functions": the first name not available.
unknown_functions(funcs) ==
    {i \in DOMAIN funcs : funcs[i] \notin discover_analysis_functions}

\* ------------------------------------------------------------------- state
VARIABLES
    prog,           \* "spectrokit" or "analyzer": the program invoked
    argv,           \* the command line: input, functions, sample_size,
                    \* labels, image_output, seed
    pc,             \* where analyze stands
    exc,            \* the uncaught exception that ended the run, "" if none
    rng,            \* state of the module-level random generator
    audio_files,    \* the file list: discovered, then sampled
    functions,      \* analyze's parameter (spectrokit.py: a str until split)
    labels,         \* analyze's parameter (spectrokit.py: a str until split)
    futures,        \* one per submitted file
    opened,         \* files the decoder was called on
    images,         \* spectrograms written
    results,        \* the results list
    pbar_n,         \* the progress bar's counter
    log,            \* lines written while collecting
    written,        \* report files written
    summary,        \* the summary statistics printed
    prev_run        \* what the previous invocation dispatched, None on the first

vars ==
    <<prog, argv, pc, exc, rng, audio_files, functions, labels, futures, opened,
      images, results, pbar_n, log, written, summary, prev_run>>

\* ------------------------------------------------------------ command lines
SeqsUpTo(S, n) == UNION {[1 .. m -> S] : m \in 0 .. n}

\* names a user may type: two registered functions, the name __all__
\* misspells, the function __all__ leaves out, and a name of nothing
RequestNames == {"zcr_mean", "rms_variance", "bndwidth_mean", "bandwidth_mean", "tempo"}

LabelWords == <<"speech", "music", "noise">>

Inputs ==
    {[is_file |-> TRUE, path |-> p, entries |-> {}] : p \in {q \in Paths : Disk[q].is_file}}
    \cup {[is_file |-> FALSE, path |-> 0, entries |-> S] :
             S \in {T \in SUBSET Paths : Cardinality(T) <= MaxEntries}}

FunctionLists == SeqsUpTo(RequestNames, MaxFuncs)

\* label lists, and the chunks of a --labels string of whitespace alone
LabelLists == {SubSeq(LabelWords, 1, m) : m \in 0 .. MaxLabels}

SampleSizes == {None} \cup {Some(k) : k \in -1 .. MaxSample}

Seeds == {None} \cup {Some(a) : a \in 0 .. MaxSeed}

\* spectrokit.py takes --functions and --labels as one str each; analyzer.py
\* takes them as lists and has no --seed.  c says whether --labels is given
\* and whether it is given as whitespace alone.
CommandLine(program, inp, fl, ll, c, k, img, a) ==
    [input |-> inp,
     functions |-> IF program = "spectrokit" THEN PyStr(join_items(" ", fl)) ELSE PyList(fl),
     labels |-> IF ~c.given THEN PyNone
                ELSE IF program = "spectrokit"
                     THEN PyStr(IF c.blank THEN <<" ">> ELSE join_items(" ", ll))
                     ELSE PyList(ll),
     sample_size |-> k,
     image_output |-> img,
     seed |-> a]

LabelCases(program) ==
    {[given |-> TRUE, blank |-> FALSE], [given |-> FALSE, blank |-> FALSE]}
    \cup (IF program = "spectrokit" THEN {[given |-> TRUE, blank |-> TRUE]} ELSE {})

\* The command lines explored, three families over every input:
\*   every list of function names, with one label, no images, no sampling;
\*   every list of registered names with every label case, with and without
\*     an image directory, no sampling;
\*   every sample size and seed with one function, one label, no images.
ExploredCommandLines(program) ==
    LET one_label == [given |-> TRUE, blank |-> FALSE]
    IN    {CommandLine(program, inp, fl, <<"speech">>, one_label, None, None, None) :
              inp \in Inputs, fl \in FunctionLists}
     \cup {CommandLine(program, inp, fl, ll, c, None, img, None) :
              inp \in Inputs,
              fl \in SeqsUpTo(RequestNames \cap discover_analysis_functions, MaxFuncs),
              ll \in LabelLists, c \in LabelCases(program), img \in {None, Some("img")}}
     \cup {CommandLine(program, inp, <<"zcr_mean">>, <<"speech">>, one_label, k, None, a) :
              inp \in Inputs, k \in SampleSizes,
              a \in IF program = "spectrokit" THEN Seeds ELSE {None}}

\* the run state at analyze's first statement; the interpreter has seeded
\* the random module from the operating system
StartOfRun(cl) ==
    [pc |-> "discover", exc |-> "", rng |-> None, audio_files |-> <<>>,
     functions |-> cl.functions, labels |-> cl.labels]

Init ==
    /\ prog \in {"spectrokit", "analyzer"}
    /\ argv \in {cl \in ExploredCommandLines(prog) :
                     prog = "analyzer" => cl.functions.v # <<>>}
    /\ pc = StartOfRun(argv).pc
    /\ exc = StartOfRun(argv).exc
    /\ rng = StartOfRun(argv).rng
    /\ audio_files = StartOfRun(argv).audio_files
    /\ functions = StartOfRun(argv).functions
    /\ labels = StartOfRun(argv).labels
    /\ futures = <<>>
    /\ opened = {}
    /\ images = {}
    /\ results = <<>>
    /\ pbar_n = 0
    /\ log = <<>>
    /\ written = <<>>
    /\ summary = None
    /\ prev_run = None

\* ------------------------------------------------------------------ analyze
\* faulty variant: an empty file list does not end the run
DiscoverFiles_NoEmptyCheck ==
    /\ pc = "discover"
    /\ audio_files' = discover(argv.input)
    /\ pc' = IF prog = "spectrokit" THEN "seed" ELSE "sample"
    /\ UNCHANGED <<prog, argv, exc, rng, functions, labels, futures, opened, images,
                   results, pbar_n, log, written, summary, prev_run>>

\* "discover files": a typer.Exit(1) when there are none.
DiscoverFiles ==
    /\ pc = "discover"
    /\ audio_files' = discover(argv.input)
    /\ pc' = IF audio_files' = <<>> THEN "exit"
             ELSE IF prog = "spectrokit" THEN "seed" ELSE "sample"
    /\ UNCHANGED <<prog, argv, exc, rng, functions, labels, futures, opened, images,
                   results, pbar_n, log, written, summary, prev_run>>

\* faulty variant: the seed is not given to the generator
SeedRandom_Ignored ==
    /\ pc = "seed"
    /\ pc' = "sample"
    /\ UNCHANGED <<prog, argv, exc, rng, audio_files, functions, labels, futures,
                   opened, images, results, pbar_n, log, written, summary, prev_run>>

\* spectrokit.py: "if seed is not None: random.seed(seed)"
SeedRandom ==
    /\ pc = "seed"
    /\ rng' = IF argv.seed # None THEN random_seed(argv.seed[1]) ELSE rng
    /\ pc' = "sample"
    /\ UNCHANGED <<prog, argv, exc, audio_files, functions, labels, futures, opened,
                   images, results, pbar_n, log, written, summary, prev_run>>

AfterSampling == IF prog = "spectrokit" THEN "split" ELSE "validate"

\* "apply sampling if needed": random.sample's ValueError is not caught.
ApplySampling ==
    /\ pc = "sample"
    /\ IF truthy_int(argv.sample_size)
       THEN \E r \in random_sample(rng, audio_files,
                                   Min(argv.sample_size[1], Len(audio_files))) :
               IF r.exc # ""
               THEN /\ pc' = "crash"
                    /\ exc' = r.exc
                    /\ UNCHANGED <<audio_files, rng>>
               ELSE /\ audio_files' = r.v
                    /\ rng' = r.rng
                    /\ pc' = AfterSampling
                    /\ UNCHANGED exc
       ELSE /\ pc' = AfterSampling
            /\ UNCHANGED <<audio_files, rng, exc>>
    /\ UNCHANGED <<prog, argv, functions, labels, futures, opened, images, results,
                   pbar_n, log, written, summary, prev_run>>

\* spectrokit.py: "split functions string into a list", "split labels string
\* into a list if provided"
SplitOptions ==
    /\ pc = "split"
    /\ functions' = PyList(str_split(functions.v))
    /\ labels' = IF truthy(labels) THEN PyList(str_split(labels.v)) ELSE labels
    /\ pc' = "validate"
    /\ UNCHANGED <<prog, argv, exc, rng, audio_files, futures, opened, images,
                   results, pbar_n, log, written, summary, prev_run>>

\* "validate requested functions": a typer.Exit(1) on the first name that
\* discover_analysis_functions() does not hold.
ValidateFunctions ==
    /\ pc = "validate"
    /\ pc' = IF unknown_functions(functions.v) # {} THEN "exit" ELSE "dispatch"
    /\ UNCHANGED <<prog, argv, exc, rng, audio_files, functions, labels, futures,
                   opened, images, results, pbar_n, log, written, summary, prev_run>>

\* executor.submit(process_file, ...) for every file of the list
Dispatch ==
    /\ pc = "dispatch"
    /\ futures' = [i \in 1 .. Len(audio_files) |->
                      [file |-> audio_files[i], state |-> "pending",
                       exc |-> NoExc, result |-> None]]
    /\ pc' = "collect"
    /\ UNCHANGED <<prog, argv, exc, rng, audio_files, functions, labels, opened,
                   images, results, pbar_n, log, written, summary, prev_run>>

\* process_file as the program invoked defines it
process_file(audio_file) ==
    IF prog = "spectrokit"
    THEN spectrokit_process_file(audio_file, functions, labels, argv.image_output)
    ELSE analyzer_process_file(audio_file, functions, labels, argv.image_output)

\* A worker process runs process_file on a submitted file; the future holds
\* what it returned or raised.
Worker(i) ==
    /\ pc = "collect"
    /\ futures[i].state = "pending"
    /\ LET out == process_file(futures[i].file)
       IN /\ futures' = [futures EXCEPT ![i].state = "finished",
                                        ![i].exc = out.exc,
                                        ![i].result = out.result]
          /\ opened' = opened \cup {futures[i].file}
          /\ images' = images \cup Range(out.image)
    /\ UNCHANGED <<prog, argv, pc, exc, rng, audio_files, functions, labels, results,
                   pbar_n, log, written, summary, prev_run>>

\* faulty variant: the future's exception is not caught and ends the run
Collect_NoCatch(i) ==
    /\ pc = "collect"
    /\ futures[i].state = "finished"
    /\ futures' = [futures EXCEPT ![i].state = "yielded"]
    /\ IF futures[i].exc = NoExc
       THEN /\ results' = Append(results, futures[i].result[1])
            /\ pbar_n' = pbar_n + 1
            /\ UNCHANGED <<pc, exc>>
       ELSE /\ pc' = "crash"
            /\ exc' = futures[i].exc.type
            /\ UNCHANGED <<results, pbar_n>>
    /\ UNCHANGED <<prog, argv, rng, audio_files, functions, labels, opened, images,
                   log, written, summary, prev_run>>

\* faulty variant: the bar advances only when the future returned
Collect_UpdateOnSuccess(i) ==
    /\ pc = "collect"
    /\ futures[i].state = "finished"
    /\ futures' = [futures EXCEPT ![i].state = "yielded"]
    /\ IF futures[i].exc = NoExc
       THEN /\ results' = Append(results, futures[i].result[1])
            /\ pbar_n' = pbar_n + 1
            /\ UNCHANGED log
       ELSE /\ log' = Append(log, [kind |-> "error", exc |-> futures[i].exc, file |-> 0])
            /\ UNCHANGED <<results, pbar_n>>
    /\ UNCHANGED <<prog, argv, pc, exc, rng, audio_files, functions, labels, opened,
                   images, written, summary, prev_run>>

\* One turn of "for f in as_completed(futures)": the result is appended, or
\* the exception is caught and written; the bar advances either way.
Collect(i) ==
    /\ pc = "collect"
    /\ futures[i].state = "finished"
    /\ futures' = [futures EXCEPT ![i].state = "yielded"]
    /\ IF futures[i].exc = NoExc
       THEN /\ results' = Append(results, futures[i].result[1])
            /\ log' = IF prog = "spectrokit"
                      THEN Append(log, [kind |-> "processed", exc |-> NoExc,
                                        file |-> futures[i].result[1].file])
                      ELSE log
       ELSE /\ log' = Append(log, [kind |-> "error", exc |-> futures[i].exc, file |-> 0])
            /\ UNCHANGED results
    /\ pbar_n' = pbar_n + 1
    /\ UNCHANGED <<prog, argv, pc, exc, rng, audio_files, functions, labels, opened,
                   images, written, summary, prev_run>>

\* the report's file name
report_name ==
    IF prog = "spectrokit"
    THEN LET j == str_join("_", labels)
         IN [exc |-> j.exc, v |-> j.v \o <<"-results.json">>]
    ELSE [exc |-> "", v |-> <<"results.json">>]

\* After the loop: json.dump(results) into the report file.
WriteReport ==
    /\ pc = "collect"
    /\ \A i \in DOMAIN futures : futures[i].state = "yielded"
    /\ IF report_name.exc # ""
       THEN /\ pc' = "crash"
            /\ exc' = report_name.exc
            /\ UNCHANGED written
       ELSE /\ written' = Append(written, [name |-> report_name.v, content |-> results])
            /\ pc' = IF prog = "spectrokit" THEN "summary" ELSE "done"
            /\ UNCHANGED exc
    /\ UNCHANGED <<prog, argv, rng, audio_files, functions, labels, futures, opened,
                   images, results, pbar_n, log, summary, prev_run>>

\* ------------------------------------------------------- summary statistics
RECURSIVE dict_keys(_)
\* the keys of {func: [] for func in functions}, in insertion order
dict_keys(funcs) ==
    IF funcs = <<>> THEN <<>>
    ELSE <<Head(funcs)>> \o dict_keys(SelectSeq(Tail(funcs), LAMBDA f : f # Head(funcs)))

RECURSIVE summary_values(_, _)
\* summary[func] after "for result in results: for func, value in
\* result['analysis'].items(): summary[func].append(value)"
summary_values(rs, func) ==
    IF rs = <<>> THEN <<>>
    ELSE (IF func \in DOMAIN Head(rs).analysis THEN Head(rs).analysis[func] ELSE <<>>)
         \o summary_values(Tail(rs), func)

RECURSIVE sum_seq(_)
sum_seq(xs) == IF xs = <<>> THEN 0 ELSE Head(xs) + sum_seq(Tail(xs))

\* statistics.stdev(values): a StatisticsError below two values; else the
\* root of the sample variance, kept as the variance's exact fraction.
statistics_stdev(values) ==
    LET n == Len(values)
        sq == [i \in DOMAIN values |-> values[i] * values[i]]
    IN IF n < 2 THEN [exc |-> "StatisticsError", num |-> 0, den |-> 1]
       ELSE [exc |-> "", num |-> n * sum_seq(sq) - sum_seq(values) * sum_seq(values),
             den |-> n * (n - 1)]

\* one line of the summary: its text, or the exception its f-string raises
summary_line(func, values) ==
    IF values # <<>>
    THEN LET sd == statistics_stdev(values)
         IN [exc |-> sd.exc, func |-> func, text |-> "stats",
             mean_num |-> sum_seq(values), count |-> Len(values),
             var_num |-> sd.num, var_den |-> sd.den]
    ELSE [exc |-> "", func |-> func, text |-> "No data available",
          mean_num |-> 0, count |-> 0, var_num |-> 0, var_den |-> 1]

RECURSIVE summary_lines(_, _)
\* "for func, values in summary.items()": the lines echoed, and the
\* exception that ends the loop, if any
summary_lines(keys, rs) ==
    IF keys = <<>> THEN [exc |-> "", lines |-> <<>>]
    ELSE LET l == summary_line(Head(keys), summary_values(rs, Head(keys)))
         IN IF l.exc # "" THEN [exc |-> l.exc, lines |-> <<>>]
            ELSE LET rest == summary_lines(Tail(keys), rs)
                 IN [exc |-> rest.exc, lines |-> <<l>> \o rest.lines]

\* spectrokit.py: "calculate and print summary statistics"
Summarize ==
    /\ pc = "summary"
    /\ IF results # <<>>
       THEN LET s == summary_lines(dict_keys(functions.v), results)
            IN /\ summary' = Some(s.lines)
               /\ pc' = IF s.exc # "" THEN "crash" ELSE "done"
               /\ exc' = s.exc
       ELSE /\ pc' = "done"
            /\ UNCHANGED <<summary, exc>>
    /\ UNCHANGED <<prog, argv, rng, audio_files, functions, labels, futures, opened,
                   images, results, pbar_n, log, written, prev_run>>

\* ------------------------------------------------------------ a second run
Terminated == pc \in {"done", "exit", "crash"}

\* the files of the futures, in submission order
dispatched == [i \in DOMAIN futures |-> futures[i].file]

\* The same command line is run once more, in a new process.
Rerun ==
    /\ Terminated
    /\ prev_run = None
    /\ prev_run' = Some(dispatched)
    /\ pc' = StartOfRun(argv).pc
    /\ exc' = StartOfRun(argv).exc
    /\ rng' = StartOfRun(argv).rng
    /\ audio_files' = StartOfRun(argv).audio_files
    /\ functions' = StartOfRun(argv).functions
    /\ labels' = StartOfRun(argv).labels
    /\ futures' = <<>>
    /\ opened' = {}
    /\ images' = {}
    /\ results' = <<>>
    /\ pbar_n' = 0
    /\ log' = <<>>
    /\ written' = <<>>
    /\ summary' = None
    /\ UNCHANGED <<prog, argv>>

Next ==
    \/ DiscoverFiles
    \/ SeedRandom
    \/ ApplySampling
    \/ SplitOptions
    \/ ValidateFunctions
    \/ Dispatch
    \/ \E i \in DOMAIN futures : Worker(i)
    \/ \E i \in DOMAIN futures : Collect(i)
    \/ WriteReport
    \/ Summarize
    \/ Rerun

Spec == Init /\ [][Next]_vars

\* the exit status of a run that has ended: 1 after typer.Exit(1) or an
\* uncaught exception, else 0
exit_code == IF pc = "done" THEN 0 ELSE 1

\* ------------------------------------------------------- state descriptions
\* the run got past the validation of the function names: it has submitted
Dispatched == futures # <<>>

\* the run was ended by the validation of the function names
Rejected == pc = "exit" /\ audio_files # <<>>

\* the collection loop is over
LoopEnded == Dispatched /\ pc # "collect"

Yielded == {i \in DOMAIN futures : futures[i].state = "yielded"}

ErrorLines == {j \in DOMAIN log : log[j].kind = "error"}

ResultsOf(file) == {j \in DOMAIN results : results[j].file = file}

\* the requested names that raise on a file
RaisingOn(file) == {n \in Range(functions.v) : n \in Disk[file].raising}

\* rendering is asked for and fails on the file
RenderFails(file) ==
    argv.image_output # None /\ (~Disk[file].renderable \/ labels.t = "None")

\* ------------------------------------------------------------------- claims

\* C1: validation accepts exactly the names of features.__all__: a run that
\* got past validation requested only names of __all__, and a run that
\* validation ended requested some name outside __all__, with no file decoded
\* and no worker dispatched.
C1_ValidationAcceptsExactlyAll ==
    /\ Dispatched => \A n \in Range(functions.v) : n \in Range(features_all)
    /\ Rejected => /\ \E n \in Range(functions.v) : n \notin Range(features_all)
                   /\ exit_code # 0
                   /\ futures = <<>>
                   /\ opened = {}

\* C2: when discovery yields no file, the run ends with a non-zero exit, and
\* at no point of it is a worker dispatched, a file decoded or a report
\* written.
C2_EmptyInputAborts ==
    (discover(argv.input) = <<>> /\ pc # "discover") =>
        /\ pc = "exit"
        /\ exit_code # 0
        /\ futures = <<>>
        /\ opened = {}
        /\ written = <<>>

\* C2 witness: a directory that holds entries, none a supported audio file,
\* has ended the run.
C2_Witness ==
    /\ pc = "exit"
    /\ argv.input.entries # {}
    /\ discover(argv.input) = <<>>

\* C3: a run that has dispatched and ended has collected every future, and
\* its results hold exactly one entry per file whose process_file returned
\* and none per file whose process_file raised.
C3_FailuresDoNotAbortBatch ==
    (Dispatched /\ Terminated) =>
        /\ Yielded = DOMAIN futures
        /\ \A i \in DOMAIN futures :
              Cardinality(ResultsOf(futures[i].file))
                  = (IF process_file(futures[i].file).exc = NoExc THEN 1 ELSE 0)
        /\ Len(results)
              = Cardinality({i \in DOMAIN futures : process_file(futures[i].file).exc = NoExc})

\* C3 witness: a run of two files ended, one file raised and one returned.
C3_Witness ==
    /\ Terminated
    /\ Len(futures) = 2
    /\ \E i, j \in DOMAIN futures :
          /\ process_file(futures[i].file).exc # NoExc
          /\ process_file(futures[j].file).exc = NoExc
    /\ Len(results) = 1

\* C4: a collected file that decodes and renders, and on which some requested
\* function raises: analyzer.py returns its result, with None for each
\* raising function and the computed value for each other; spectrokit.py
\* leaves it out of the results and writes the error, which names the file.
\* Either way a collected file with no failure at all is in the results with
\* every value computed.
C4_FeatureFailureIsolation ==
    \A i \in Yielded :
        LET file == futures[i].file
            a == IF ResultsOf(file) = {} THEN <<>>
                 ELSE results[CHOOSE j \in ResultsOf(file) : TRUE].analysis
        IN (~Disk[file].corrupt /\ ~RenderFails(file)) =>
            IF RaisingOn(file) # {} /\ prog = "spectrokit"
            THEN /\ ResultsOf(file) = {}
                 /\ \E j \in ErrorLines : log[j].exc.type = "RuntimeError"
                                          /\ log[j].exc.file = file
                                          /\ log[j].exc.funcname \in RaisingOn(file)
            ELSE /\ Cardinality(ResultsOf(file)) = 1
                 /\ \A n \in Range(functions.v) :
                       /\ n \in DOMAIN a
                       /\ a[n] = IF n \in RaisingOn(file) THEN None
                                 ELSE Some(feature_value(n, file))

\* C4 witness (lenient): analyzer.py has collected a result that holds None
\* for the raising function and a value for another.
C4_Witness ==
    /\ prog = "analyzer"
    /\ \E j \in DOMAIN results :
          /\ DOMAIN results[j].analysis = {"zcr_mean", "rms_variance"}
          /\ results[j].analysis["rms_variance"] = None
          /\ results[j].analysis["zcr_mean"] # None

\* C5: every result of the results list, and of a written report, has an
\* analysis map whose keys are exactly the requested names, each mapped to a
\* number or to None.
C5_AnalysisKeysAreRequest ==
    /\ \A j \in DOMAIN results :
          /\ DOMAIN results[j].analysis = Range(functions.v)
          /\ \A n \in DOMAIN results[j].analysis :
                \/ results[j].analysis[n] = None
                \/ /\ Len(results[j].analysis[n]) = 1
                   /\ results[j].analysis[n][1] \in Int
    /\ \A w \in DOMAIN written : \A j \in DOMAIN written[w].content :
          DOMAIN written[w].content[j].analysis = Range(functions.v)

\* C5 witness: a written report holds a result with two keys, one of them
\* mapped to None.
C5_Witness ==
    \E w \in DOMAIN written : \E j \in DOMAIN written[w].content :
        /\ Cardinality(DOMAIN written[w].content[j].analysis) = 2
        /\ \E n \in DOMAIN written[w].content[j].analysis :
              written[w].content[j].analysis[n] = None

\* C6: with an image directory given, a collected file whose features were
\* all computed and whose rendering failed is in the results all the same.
C6_RenderFailureKeepsResult ==
    \A i \in Yielded :
        LET file == futures[i].file
        IN (~Disk[file].corrupt /\ RaisingOn(file) = {} /\ RenderFails(file)) =>
               Cardinality(ResultsOf(file)) = 1

\* C7: a run of spectrokit.py that wrote its report ends normally, and its
\* summary has a line for every requested feature, which for a feature with
\* fewer than two values says that the data is insufficient.
C7_SummaryNeverRaises ==
    (prog = "spectrokit" /\ Terminated /\ written # <<>>) =>
        /\ pc = "done"
        /\ results # <<>> =>
              /\ summary # None
              /\ {summary[1][j].func : j \in DOMAIN summary[1]} = Range(functions.v)
              /\ \A j \in DOMAIN summary[1] :
                    summary[1][j].count < 2 => summary[1][j].text = "insufficient data"

\* C8: a run that passed the configuration checks and ended has collected
\* every file and written exactly one report, named by the labels joined with
\* underscores and "-results.json" when spectrokit.py is given labels, and by
\* a fixed name otherwise.
C8_ReportWrittenOnce ==
    (Dispatched /\ Terminated) =>
        /\ Yielded = DOMAIN futures
        /\ Len(written) = 1
        /\ written[1].content = results
        /\ (prog = "spectrokit" /\ argv.labels.t # "None") =>
              written[1].name = join_items("_", str_split(argv.labels.v)) \o <<"-results.json">>
        /\ prog = "analyzer" => written[1].name = <<"results.json">>

\* C9: the progress counter equals the results collected plus the failures
\* caught, which is the number of futures yielded; it never exceeds the
\* number of files dispatched and equals it once the loop is over.
C9_ProgressCountsEveryFile ==
    /\ pbar_n = Len(results) + Cardinality(ErrorLines)
    /\ pbar_n = Cardinality(Yielded)
    /\ pbar_n <= Len(futures)
    /\ LoopEnded => pbar_n = Len(futures)

\* C9 witness: the loop is over a success and a failure.
C9_Witness ==
    /\ LoopEnded
    /\ pbar_n = 2
    /\ Len(results) = 1
    /\ Cardinality(ErrorLines) = 1

\* the dispatched files are distinct files of the discovered ones, as many
\* as asked for or all of them when there are fewer
SampleOf(k) ==
    /\ Cardinality(Range(dispatched)) = Len(dispatched)
    /\ Range(dispatched) \subseteq Range(discover(argv.input))
    /\ Len(dispatched) = Min(k, Len(discover(argv.input)))

\* a second run with a seed dispatches what the first dispatched
SameAsPreviousRun ==
    (argv.seed # None /\ prev_run # None) => dispatched = prev_run[1]

\* C10 as claimed: whenever a sample size k is given, the dispatched files
\* are a duplicate-free subset of the discovered ones of size min(k, N), the
\* same in a second run with the same seed.
C10_SampleWheneverRequested ==
    (Dispatched /\ argv.sample_size # None) =>
        (SampleOf(argv.sample_size[1]) /\ SameAsPreviousRun)

\* C10 as amended: whenever a sample size k >= 1 is given, the dispatched
\* files are a duplicate-free subset of the discovered ones of size
\* min(k, N), the same in a second run with the same seed.
C10_SampleWhenPositive ==
    (Dispatched /\ argv.sample_size # None /\ argv.sample_size[1] >= 1) =>
        (SampleOf(argv.sample_size[1]) /\ SameAsPreviousRun)

\* C10 witness: a second run with a seed has dispatched one of two
\* discovered files.
C10_Witness ==
    /\ Dispatched
    /\ prev_run # None
    /\ argv.seed # None
    /\ argv.sample_size = Some(1)
    /\ Len(discover(argv.input)) = 2
    /\ Len(dispatched) = 1

====
